---- MODULE Spec2Model ----
(***************************************************************************)
(* octodns-infomaniak: InfomaniakClient and InfomaniakProvider             *)
(* (octodns_infomaniak/__init__.py) as a state machine.                    *)
(*                                                                         *)
(* State: the rows the remote API holds per domain, the provider object's  *)
(* _zone_records cache, the position of the one thread of control inside   *)
(* _apply, the plan it iterates, and what the last populate handed to the  *)
(* caller's zone container.                                                *)
(*                                                                         *)
(* populate is one action (it makes at most two requests, whose HTTP       *)
(* statuses are its inputs).  _apply is a sequence of steps, one per       *)
(* request it sends, because claims speak of the order of its requests and *)
(* of failures part-way; pc forces the steps to follow the code's control  *)
(* flow, and no other operation runs while pc # "idle".                    *)
(*                                                                         *)
(* Strings that the code slices (zone names) are sequences of characters.  *)
(***************************************************************************)
EXTENDS Naturals, Sequences, FiniteSets, TLC

VARIABLES
    prov,           \* remote API: domain name (no trailing dot) -> list of rows
    nextId,         \* remote API: id given to the next created row
    _zone_records,  \* InfomaniakProvider._zone_records: zone name -> cached rows
    pc,             \* "idle", or the line of _apply the thread is at
    plan,           \* the plan being (or last) applied: desired zone, changes
    idx,            \* 1-based position in plan.changes of the change in hand
    scan,           \* _apply_delete: rows the for loop has still to visit
    todo,           \* _apply_create: parameter sets the generator has still to yield
    calls,          \* requests sent by the handler of the change in hand
    applied,        \* the last _apply call: its zone, its outcome ("running", "ok" or
                    \* the exception raised), and the record r when its plan was
                    \* [Create(r)] and the remote zone held no row of r's name and type
    fresh,          \* zones for which _apply returned and populate has not run since
    pop,            \* populate, when it was the last call: zone, requests, records, outcome
    last,           \* the last operation started: "none", "populate", "apply"
    nPopulate,      \* populate calls so far
    nApply          \* _apply calls so far

vars == <<prov, nextId, _zone_records, pc, plan, idx, scan, todo, calls,
          applied, fresh, pop, last, nPopulate, nApply>>

----------------------------------------------------------------------------
(* Bounds of the model *)

MaxChanges == 2
MaxApply == 1
MaxPopulate == 2

----------------------------------------------------------------------------
(* Data *)

Zones == { <<"a", ".">>, <<"b", ".">> }

SUPPORTS == {"A", "AAAA", "CNAME"}

\* HTTP statuses the remote API answers with
StatusCodes == {200, 400, 401, 500}

BadRequest == "InfomaniakClientBadRequest"
Unauthorized == "InfomaniakClientUnauthorized"

\* except InfomaniakClientException: the two subclasses the client raises
InfomaniakClientException == {BadRequest, Unauthorized}

Row(id, source, type, ttl, target) ==
    [id |-> id, source |-> source, type |-> type, ttl |-> ttl, target |-> target]

\* an octoDNS record: A and AAAA carry values, CNAME one value (values of length 1)
Rec(name, type, ttl, values) ==
    [name |-> name, type |-> type, ttl |-> ttl, values |-> values]

NoParams == [target |-> "", source |-> "", ttl |-> 0, type |-> ""]

Call(op, domain, id, params, status) ==
    [op |-> op, domain |-> domain, id |-> id, params |-> params, status |-> status]

\* rows the remote API may hold for a zone before the program runs
SeedRows ==
    << Row(1, ".", "A", 300, "v1"),
       Row(2, "www", "AAAA", 300, "v1"),
       Row(3, "www", "MX", 300, "v1"),
       Row(4, "www", "AAAA", 600, "v2") >>

InitLists == { <<>>, SeedRows }

FirstId == Len(SeedRows) + 1

\* the records an external planner may put in a change: one or two values
\* at the apex and at a name, and a single-value type
ValueLists == { <<"v1">>, <<"v1", "v2">> }

NewRecords ==
    { Rec("", "A", 600, vs) : vs \in ValueLists }
    \cup { Rec("www", "AAAA", 600, vs) : vs \in ValueLists }
    \cup { Rec("www", "CNAME", 600, <<"v1">>) }

ExistingRecords ==
    { Rec("", "A", 300, <<"v1">>),
      Rec("www", "AAAA", 300, <<"v1", "v2">>),
      Rec("www", "CNAME", 300, <<"v2">>) }

NoRec == Rec("", "", 0, <<>>)

Create(new) == [kind |-> "create", existing |-> NoRec, new |-> new]
Delete(existing) == [kind |-> "delete", existing |-> existing, new |-> NoRec]
Update(existing, new) == [kind |-> "update", existing |-> existing, new |-> new]

Changes ==
    { Create(r) : r \in NewRecords }
    \cup { Delete(r) : r \in ExistingRecords }
    \cup UNION { { Update(e, r) : r \in { x \in NewRecords :
                                              x.name = e.name /\ x.type = e.type } } :
                  e \in ExistingRecords }

ChangeLists == UNION { [1..n -> Changes] : n \in 0..MaxChanges }

ZoneA == <<"a", ".">>
ZoneB == <<"b", ".">>

\* the plans _apply may be given: any list of changes for one zone, at most
\* one change for the other
Plans ==
    { [desired |-> ZoneA, changes |-> cs] : cs \in ChangeLists }
    \cup { [desired |-> ZoneB, changes |-> cs] : cs \in { c \in ChangeLists : Len(c) <= 1 } }

----------------------------------------------------------------------------
(* Strings *)

\* s[:-1]
DropLast(s) == IF Len(s) = 0 THEN s ELSE SubSeq(s, 1, Len(s) - 1)

\* s.rstrip(".")
RECURSIVE rstrip(_)
rstrip(s) == IF Len(s) > 0 /\ s[Len(s)] = "." THEN rstrip(DropLast(s)) ELSE s

Domains == { rstrip(z) : z \in Zones }

RECURSIVE Distinct(_)
\* the elements of s in order of first appearance (the key order of a dict)
Distinct(s) ==
    IF s = <<>> THEN <<>>
    ELSE LET rest == Distinct(DropLast(s))
             x == s[Len(s)]
         IN IF \E i \in 1..Len(rest) : rest[i] = x THEN rest ELSE Append(rest, x)

RECURSIVE Flatten(_)
Flatten(ss) == IF ss = <<>> THEN <<>> ELSE Head(ss) \o Flatten(Tail(ss))

----------------------------------------------------------------------------
(* InfomaniakClient *)

\* the exception _request raises for a response status, "none" when it returns
_request(status) ==
    IF status = 400 THEN BadRequest
    ELSE IF status = 401 THEN Unauthorized
    ELSE IF status >= 400 THEN "HTTPError"
    ELSE "none"

\* the status of the response: the remote API knows no domain but its own
Respond(p, domain, status) == IF domain \in DOMAIN p THEN status ELSE 404

\* records(domain_name): the path it requests
records_path(domain_name) == rstrip(domain_name)

\* records(domain_name): the "data" of a 2xx response
records(p, domain_name) == p[records_path(domain_name)]

\* the source_name under which the remote API lists a row created with a
\* source: it lists the apex as "." and knows no other name for it (a POST
\* it refuses is a POST answered with a failure status)
RemoteSource(source) == IF source = "" THEN "." ELSE source

\* record_create: what a 2xx POST leaves at the remote API
record_create(p, id, domain_name, params) ==
    [p EXCEPT ![domain_name] =
        Append(@, Row(id, RemoteSource(params.source), params.type, params.ttl,
                      params.target))]

\* record_delete: what a 2xx DELETE leaves at the remote API
record_delete(p, domain_name, record_id) ==
    LET Keep(r) == r.id # record_id
    IN [p EXCEPT ![domain_name] = SelectSeq(@, Keep)]

----------------------------------------------------------------------------
(* InfomaniakProvider: the cache *)

\* the cache taking an entry without the rows of the response
CachePut_empty(cache, name, rows) ==
    [z \in DOMAIN cache \cup {name} |-> IF z = name THEN <<>> ELSE cache[z]]

\* self._zone_records[zone.name] = rows
CachePut(cache, name, rows) ==
    [z \in DOMAIN cache \cup {name} |-> IF z = name THEN rows ELSE cache[z]]

\* self._zone_records.pop(name, None)
CachePop(cache, name) == [z \in DOMAIN cache \ {name} |-> cache[z]]

\* zone_records with the failure cached: an empty list is stored for the zone
zone_records_negative(cache, p, zone, status) ==
    IF zone \in DOMAIN cache
    THEN [rows |-> cache[zone], cache |-> cache, calls |-> <<>>, exc |-> "none"]
    ELSE LET domain == DropLast(zone)
             st == Respond(p, rstrip(domain), status)
             e == _request(st)
             sent == << Call("records", rstrip(domain), 0, NoParams, st) >>
         IN IF e = "none"
            THEN [rows |-> p[rstrip(domain)],
                  cache |-> CachePut(cache, zone, p[rstrip(domain)]),
                  calls |-> sent, exc |-> "none"]
            ELSE IF e \in InfomaniakClientException
            THEN [rows |-> <<>>, cache |-> CachePut(cache, zone, <<>>),
                  calls |-> sent, exc |-> "none"]
            ELSE [rows |-> <<>>, cache |-> cache, calls |-> sent, exc |-> e]

\* zone_records(zone): the rows it returns, the cache it leaves, the request it
\* sent (if any) and the exception that left it (if any)
zone_records(cache, p, zone, status) ==
    IF zone \in DOMAIN cache
    THEN [rows |-> cache[zone], cache |-> cache, calls |-> <<>>, exc |-> "none"]
    ELSE LET domain == DropLast(zone)
             st == Respond(p, records_path(domain), status)
             e == _request(st)
             sent == << Call("records", records_path(domain), 0, NoParams, st) >>
         IN IF e = "none"
            THEN [rows |-> records(p, domain),
                  cache |-> CachePut(cache, zone, records(p, domain)),
                  calls |-> sent, exc |-> "none"]
            ELSE IF e \in InfomaniakClientException
            THEN [rows |-> <<>>, cache |-> cache, calls |-> sent, exc |-> "none"]
            ELSE [rows |-> <<>>, cache |-> cache, calls |-> sent, exc |-> e]

----------------------------------------------------------------------------
(* InfomaniakProvider: populate *)

\* the types for which the class has a _data_for_<type> attribute
DataForTypes == {"A", "AAAA", "CNAME"}

\* _data_for_generic(_type, records)
_data_for_generic(type, recs) ==
    [ttl |-> recs[1].ttl, type |-> type, value |-> recs[1].target]

\* populate's first loop without the SUPPORTS test
Supported_all(row) == TRUE

\* populate's first loop keeps a row unless its type is unsupported
Supported(row) == row.type \in SUPPORTS

\* populate's first loop: values[_name][_type], as the list of its groups in the
\* order the second loop visits them (dict order: first appearance)
values(rows) ==
    LET kept == SelectSeq(rows, Supported)
        names == Distinct([i \in 1..Len(kept) |-> kept[i].source])
        OfName(n) == LET T(r) == r.source = n IN SelectSeq(kept, T)
        TypesOf(n) == LET rs == OfName(n)
                      IN Distinct([i \in 1..Len(rs) |-> rs[i].type])
        Group(n, t) == LET T(r) == r.type = t
                       IN [name |-> n, type |-> t, records |-> SelectSeq(OfName(n), T)]
        GroupsOf(n) == LET ts == TypesOf(n)
                       IN [i \in 1..Len(ts) |-> Group(n, ts[i])]
    IN Flatten([i \in 1..Len(names) |-> GroupsOf(names[i])])

\* populate: if name == ".": name = ""
PopulateName(name) == IF name = "." THEN "" ELSE name

\* Record.new(zone, name, data): octoDNS reads data["value"] as the record's one value
Record_new(name, data) == Rec(name, data.type, data.ttl, << data.value >>)

\* populate's second loop: the records handed to zone.add_record, and the
\* exception that ended the loop (getattr of a missing _data_for_<type>)
Emit(groups) ==
    LET bad == { i \in 1..Len(groups) : groups[i].type \notin DataForTypes }
        n == IF bad = {} THEN Len(groups)
             ELSE (CHOOSE i \in bad : \A j \in bad : i <= j) - 1
    IN [records |-> [i \in 1..n |->
                        Record_new(PopulateName(groups[i].name),
                                   _data_for_generic(groups[i].type, groups[i].records))],
        exc |-> IF bad = {} THEN "none" ELSE "AttributeError"]

\* exists = zone.name in self._zone_records
Exists(cache, zone) == zone \in DOMAIN cache

\* populate(zone): s1 is the status of the request zone_records sends (if it
\* sends one), s2 the status of the request made for the log line
populate(cache, p, zone, s1, s2) ==
    LET zr == zone_records(cache, p, zone, s1)
        out == Emit(values(zr.rows))
        st2 == Respond(p, records_path(zone), s2)
        e2 == _request(st2)
        logcall == << Call("records", records_path(zone), 0, NoParams, st2) >>
    IN IF zr.exc # "none"
       THEN [cache |-> zr.cache, calls |-> zr.calls, records |-> <<>>,
             exists |-> FALSE, result |-> zr.exc]
       ELSE IF out.exc # "none"
       THEN [cache |-> zr.cache, calls |-> zr.calls, records |-> out.records,
             exists |-> FALSE, result |-> out.exc]
       ELSE IF e2 # "none"
       THEN [cache |-> zr.cache, calls |-> zr.calls \o logcall, records |-> out.records,
             exists |-> FALSE, result |-> e2]
       ELSE [cache |-> zr.cache, calls |-> zr.calls \o logcall, records |-> out.records,
             exists |-> Exists(zr.cache, zone), result |-> "ok"]

NoPop == [zone |-> <<>>, calls |-> <<>>, records |-> <<>>, exists |-> FALSE,
          result |-> "none", hadEntry |-> FALSE, afterApply |-> FALSE]

Populate(zone, s1, s2) ==
    /\ pc = "idle"
    /\ nPopulate < MaxPopulate
    \* a status is an input only of a request that is sent
    /\ zone \in DOMAIN _zone_records => s1 = 200
    /\ (zone \notin DOMAIN _zone_records /\ s1 = 500) => s2 = 200
    /\ LET r == populate(_zone_records, prov, zone, s1, s2)
       IN /\ _zone_records' = r.cache
          /\ pop' = [zone |-> zone, calls |-> r.calls, records |-> r.records,
                     exists |-> r.exists, result |-> r.result,
                     hadEntry |-> zone \in DOMAIN _zone_records,
                     afterApply |-> zone \in fresh]
    /\ fresh' = fresh \ {zone}
    /\ last' = "populate"
    /\ nPopulate' = nPopulate + 1
    /\ UNCHANGED <<prov, nextId, pc, plan, idx, scan, todo, calls, applied, nApply>>

----------------------------------------------------------------------------
(* InfomaniakProvider: the translator, record -> request parameters *)

Params(target, source, ttl, type) ==
    [target |-> target, source |-> source, ttl |-> ttl, type |-> type]

\* _params_for_generic(record): record.value is the record's one value
_params_for_generic(record) ==
    << Params(record.values[1], record.name, record.ttl, record.type) >>

\* _params_for_multiple stopping after the first value
_params_for_multiple_first(record) ==
    << Params(record.values[1], record.name, record.ttl, record.type) >>

\* _params_for_multiple(record)
_params_for_multiple(record) ==
    [i \in 1..Len(record.values) |->
        Params(record.values[i], record.name, record.ttl, record.type)]

\* getattr(self, f"_params_for_{new._type}")
_params_for(record) ==
    IF record.type \in {"A", "AAAA"} THEN _params_for_multiple(record)
    ELSE _params_for_generic(record)

----------------------------------------------------------------------------
(* InfomaniakProvider: _apply and its handlers *)

\* _apply_delete without the rewrite of the apex name
DeleteName_kept(name) == name

\* _apply_delete: if existing.name == "": existing.name = "."
DeleteName(name) == IF name = "" THEN "." ELSE name

\* _apply_delete's test without the comparison of the types
Matches_name(existing, row) == existing.name = row.source

\* _apply_delete: the test that selects the rows to delete
Matches(existing, row) == existing.name = row.source /\ existing.type = row.type

RECURSIVE SkipTo(_, _)
\* _apply_delete's loop passing over the rows that do not match
SkipTo(existing, rows) ==
    IF rows = <<>> \/ Matches(existing, Head(rows)) THEN rows
    ELSE SkipTo(existing, Tail(rows))

\* _apply with the handler's exception caught in the loop
Propagate_caught(e) == [pc |-> "apply", result |-> "running"]

\* an exception leaving a handler leaves _apply: nothing catches it, and the
\* pop after the loop is not reached
Propagate(e) == [pc |-> "idle", result |-> e]

\* _apply dropping every entry of the cache
_apply_pop_all(cache, desired) == [z \in {} |-> <<>>]

\* _apply's last statement
_apply_pop(cache, desired) == CachePop(cache, desired)

NoPlan == [desired |-> <<>>, changes |-> <<>>]

NoApplied == [zone |-> <<>>, result |-> "none", roundTrip |-> NoRec]

Change == plan.changes[idx]

\* the name in new.zone.name[:-1] / zone.name[:-1]: a change's records belong
\* to the plan's zone
WriteDomain == DropLast(plan.desired)

\* no row of the remote zone belongs to the record's name and type
Absent(p, zone, record) ==
    \A i \in 1..Len(p[rstrip(zone)]) :
        ~ ( PopulateName(p[rstrip(zone)][i].source) = record.name
            /\ p[rstrip(zone)][i].type = record.type )

\* the thread moves to frame n; when that leaves _apply its locals are gone
Step(n) ==
    /\ pc' = n.pc
    /\ applied' = [applied EXCEPT !.result = n.result]
    /\ plan' = IF n.pc = "idle" THEN NoPlan ELSE n.plan
    /\ idx' = IF n.pc = "idle" THEN 0 ELSE n.idx
    /\ scan' = IF n.pc = "idle" THEN <<>> ELSE n.scan
    /\ todo' = IF n.pc = "idle" THEN <<>> ELSE n.todo
    /\ calls' = IF n.pc = "idle" THEN <<>> ELSE n.calls

\* _apply(plan) is called
ApplyStart(pl) ==
    /\ pc = "idle"
    /\ nApply < MaxApply
    /\ pc' = "apply"
    /\ plan' = pl
    /\ idx' = 0
    /\ scan' = <<>>
    /\ todo' = <<>>
    /\ calls' = <<>>
    /\ applied' = [zone |-> pl.desired, result |-> "running",
                   roundTrip |-> IF /\ Len(pl.changes) = 1
                                    /\ pl.changes[1].kind = "create"
                                    /\ Absent(prov, pl.desired, pl.changes[1].new)
                                 THEN pl.changes[1].new ELSE NoRec]
    /\ fresh' = fresh \ {pl.desired}
    /\ pop' = NoPop
    /\ last' = "apply"
    /\ nApply' = nApply + 1
    /\ UNCHANGED <<prov, nextId, _zone_records, nPopulate>>

\* where the thread goes once _apply_delete's loop is over: _apply_update
\* goes on to _apply_create, _apply_delete returns to _apply's loop
AfterDelete(change) ==
    IF change.kind = "update" /\ _params_for(change.new) # <<>>
    THEN [pc |-> "create", todo |-> _params_for(change.new)]
    ELSE [pc |-> "apply", todo |-> <<>>]

\* the loop takes the next change, a Create: _apply_create up to its first request
DispatchCreate ==
    /\ pc = "apply"
    /\ idx < Len(plan.changes)
    /\ plan.changes[idx + 1].kind = "create"
    /\ LET params == _params_for(plan.changes[idx + 1].new)
       IN Step([pc |-> IF params = <<>> THEN "apply" ELSE "create",
                result |-> "running", plan |-> plan, idx |-> idx + 1,
                scan |-> <<>>, todo |-> params, calls |-> <<>>])
    /\ UNCHANGED <<prov, nextId, _zone_records, fresh, pop, last, nPopulate, nApply>>

\* the loop takes the next change, a Delete or an Update: _apply_delete up to
\* its first record_delete (the name rewrite, the zone_records lookup)
DispatchDelete(status) ==
    /\ pc = "apply"
    /\ idx < Len(plan.changes)
    /\ plan.changes[idx + 1].kind \in {"delete", "update"}
    /\ LET ch == plan.changes[idx + 1]
           existing == [ch.existing EXCEPT !.name = DeleteName(@)]
           zr == zone_records(_zone_records, prov, plan.desired, status)
           rows == SkipTo(existing, zr.rows)
           frame == [result |-> "running",
                     plan |-> [plan EXCEPT !.changes[idx + 1].existing = existing],
                     idx |-> idx + 1, scan |-> rows, calls |-> zr.calls]
                    @@ (IF rows # <<>> THEN [pc |-> "delete", todo |-> <<>>]
                        ELSE AfterDelete(ch))
       IN /\ _zone_records' = zr.cache
          /\ Step(IF zr.exc # "none" THEN Propagate(zr.exc) @@ frame ELSE frame)
    /\ UNCHANGED <<prov, nextId, fresh, pop, last, nPopulate, nApply>>

\* _apply_delete: record_delete for the next matching row
DeleteCall(status) ==
    /\ pc = "delete"
    /\ LET row == Head(scan)
           st == Respond(prov, WriteDomain, status)
           e == _request(st)
           rest == SkipTo(Change.existing, Tail(scan))
           frame == [result |-> "running", plan |-> plan, idx |-> idx, scan |-> rest,
                     calls |-> Append(calls, Call("record_delete", WriteDomain,
                                                  row.id, NoParams, st))]
                    @@ (IF rest # <<>> THEN [pc |-> "delete", todo |-> <<>>]
                        ELSE AfterDelete(Change))
       IN /\ prov' = IF e = "none" THEN record_delete(prov, WriteDomain, row.id) ELSE prov
          /\ Step(IF e # "none" THEN Propagate(e) @@ frame ELSE frame)
    /\ UNCHANGED <<nextId, _zone_records, fresh, pop, last, nPopulate, nApply>>

\* _apply_create: record_create for the next parameter set
CreateCall(status) ==
    /\ pc = "create"
    /\ LET params == Head(todo)
           st == Respond(prov, WriteDomain, status)
           e == _request(st)
           frame == [pc |-> IF Tail(todo) # <<>> THEN "create" ELSE "apply",
                     result |-> "running", plan |-> plan, idx |-> idx, scan |-> scan,
                     todo |-> Tail(todo),
                     calls |-> Append(calls, Call("record_create", WriteDomain,
                                                  0, params, st))]
       IN /\ prov' = IF e = "none" THEN record_create(prov, nextId, WriteDomain, params)
                     ELSE prov
          /\ nextId' = IF e = "none" THEN nextId + 1 ELSE nextId
          /\ Step(IF e # "none" THEN Propagate(e) @@ frame ELSE frame)
    /\ UNCHANGED <<_zone_records, fresh, pop, last, nPopulate, nApply>>

\* the loop is over: the cache entry goes, _apply returns
ApplyReturn ==
    /\ pc = "apply"
    /\ idx = Len(plan.changes)
    /\ _zone_records' = _apply_pop(_zone_records, plan.desired)
    /\ Step([pc |-> "idle", result |-> "ok"])
    /\ fresh' = fresh \cup {plan.desired}
    /\ UNCHANGED <<prov, nextId, pop, last, nPopulate, nApply>>

----------------------------------------------------------------------------
(* The specification *)

Init ==
    /\ prov \in { p \in [Domains -> InitLists] : p[rstrip(ZoneB)] = SeedRows }
    /\ nextId = FirstId
    /\ _zone_records = [z \in {} |-> <<>>]
    /\ pc = "idle"
    /\ plan = NoPlan
    /\ idx = 0
    /\ scan = <<>>
    /\ todo = <<>>
    /\ calls = <<>>
    /\ applied = NoApplied
    /\ fresh = {}
    /\ pop = NoPop
    /\ last = "none"
    /\ nPopulate = 0
    /\ nApply = 0

Next ==
    \/ \E z \in Zones, s1, s2 \in StatusCodes : Populate(z, s1, s2)
    \/ \E pl \in Plans : ApplyStart(pl)
    \/ DispatchCreate
    \/ \E s \in StatusCodes : DispatchDelete(s)
    \/ \E s \in StatusCodes : DeleteCall(s)
    \/ \E s \in StatusCodes : CreateCall(s)
    \/ ApplyReturn

Spec == Init /\ [][Next]_vars

----------------------------------------------------------------------------
(* Vocabulary of the properties *)

Range(s) == { s[i] : i \in 1..Len(s) }

Exceptions == {BadRequest, Unauthorized, "HTTPError", "AttributeError"}

\* populate was the last call
Populated == last = "populate"

\* the rows the remote API holds for a zone
RemoteRows(zone) == prov[rstrip(zone)]

\* the zone's cached rows, none when it has no entry
CachedRows(zone) == IF zone \in DOMAIN _zone_records THEN _zone_records[zone] ELSE <<>>

\* the fetchRecords requests of the last populate
Fetches == { i \in 1..Len(pop.calls) : pop.calls[i].op = "records" }

AllOk(cs) == \A i \in 1..Len(cs) : cs[i].status = 200

\* the records of the last populate that carry a name and type
RecordsOf(name, type) ==
    { i \in 1..Len(pop.records) : pop.records[i].name = name /\ pop.records[i].type = type }

----------------------------------------------------------------------------
(* C1 *)

\* C1: after _apply for zone Z has returned, the next populate(Z) sends exactly
\* one fetchRecords request for Z and builds its records from that response
C1_OneFreshFetchAfterApply ==
    (Populated /\ pop.afterApply) =>
        /\ Cardinality(Fetches) = 1
        /\ \A i \in Fetches : pop.calls[i].domain = rstrip(pop.zone)
        /\ AllOk(pop.calls) => pop.records = Emit(values(RemoteRows(pop.zone))).records

----------------------------------------------------------------------------
(* C2 *)

\* C2: in every state reached after a failed _apply for zone Z, Z has no cache entry
C2_FailedApplyDropsCache ==
    (pc = "idle" /\ last = "apply" /\ applied.result \in Exceptions) =>
        applied.zone \notin DOMAIN _zone_records

----------------------------------------------------------------------------
(* C3 *)

\* C3: for a record r of type A or AAAA whose name and type had no row at the
\* remote API, _apply([Create(r)]) followed by populate, all requests
\* succeeding, yields one record of r's name and type, with r's value set and TTL
C3_RoundTrip ==
    ( /\ Populated /\ pop.result = "ok" /\ AllOk(pop.calls)
      /\ applied.result = "ok" /\ applied.zone = pop.zone
      /\ applied.roundTrip # NoRec
      /\ applied.roundTrip.type \in {"A", "AAAA"} ) =>
        LET r == applied.roundTrip
            got == RecordsOf(r.name, r.type)
        IN /\ Cardinality(got) = 1
           /\ \A i \in got : /\ Range(pop.records[i].values) = Range(r.values)
                             /\ pop.records[i].ttl = r.ttl

----------------------------------------------------------------------------
(* C4 *)

\* C4: when a request of populate fails (400, 401 or another non-2xx status),
\* populate returns normally and the zone container got no record
C4_PopulateSwallowsReadFailures ==
    (Populated /\ ~AllOk(pop.calls)) => (pop.result = "ok" /\ pop.records = <<>>)

----------------------------------------------------------------------------
(* C6 *)

\* C6 as stated: populate(Z) returns true if and only if Z had a cache entry
\* before the call began
C6_ExistsIffCachedBefore ==
    (Populated /\ pop.result = "ok") => (pop.exists = pop.hadEntry)

\* C6, amended: populate(Z), when it returns, returns true if and only if Z had a
\* cache entry before the call or the fetchRecords request of its record
\* lookup succeeded
C6_ExistsIffCachedAfterLookup ==
    (Populated /\ pop.result = "ok") =>
        (pop.exists = (pop.hadEntry \/ pop.calls[1].status = 200))

\* a first populate of a zone that returned true
C6_Witness ==
    Populated /\ pop.result = "ok" /\ ~pop.hadEntry /\ pop.exists /\ nApply = 0

----------------------------------------------------------------------------
(* Vocabulary of the properties about _apply's handlers *)

\* the thread is inside the handler of a change, or back from it at the loop
InHandler == pc \in {"apply", "delete", "create"} /\ idx >= 1

\* the handler of the change in hand has returned
HandlerDone == pc = "apply" /\ idx >= 1

\* the requests of one kind sent by the handler of the change in hand
CallsOf(op) == LET T(c) == c.op = op IN SelectSeq(calls, T)

DeletedIds == LET d == CallsOf("record_delete") IN [i \in 1..Len(d) |-> d[i].id]

CreatedParams == LET c == CallsOf("record_create") IN [i \in 1..Len(c) |-> c[i].params]

\* the source_name the remote API gives the rows of a record's name
SourceOf(name) == IF name \in {"", "."} THEN "." ELSE name

\* the ids of the cached rows of the plan's zone with a source_name and type
CachedIds(source, type) ==
    LET T(r) == r.source = source /\ r.type = type
        m == SelectSeq(CachedRows(plan.desired), T)
    IN [i \in 1..Len(m) |-> m[i].id]

IsPrefix(s, t) == Len(s) <= Len(t) /\ \A i \in 1..Len(s) : s[i] = t[i]

NoDuplicates(s) == \A i, j \in 1..Len(s) : i # j => s[i] # s[j]

----------------------------------------------------------------------------
(* C5 *)

\* C5: an Update(existing, new) handler sends one deleteRecord for every cached
\* row of existing's name and type, then one createRecord for every value of
\* new, every delete before every create, no create after a failed delete; and
\* when all its requests succeeded the remote rows of that name and type are
\* exactly new's values
C5_UpdateDeletesThenCreates ==
    (InHandler /\ Change.kind = "update") =>
        LET ch == Change
            want == CachedIds(SourceOf(ch.existing.name), ch.existing.type)
            T(r) == PopulateName(r.source) = ch.new.name /\ r.type = ch.new.type
            rows == SelectSeq(RemoteRows(plan.desired), T)
        IN /\ IsPrefix(DeletedIds, want)
           /\ pc \in {"create", "apply"} => DeletedIds = want
           /\ pc = "delete" => CreatedParams = <<>>
           /\ \A i, j \in 1..Len(calls) :
                (calls[i].op = "record_create" /\ calls[j].op = "record_delete") => j < i
           /\ IsPrefix([i \in 1..Len(CreatedParams) |-> CreatedParams[i].target],
                       ch.new.values)
           /\ (HandlerDone /\ AllOk(calls)) =>
                /\ Len(CreatedParams) = Len(ch.new.values)
                /\ Len(rows) = Len(ch.new.values)
                /\ { rows[i].target : i \in 1..Len(rows) } = Range(ch.new.values)

----------------------------------------------------------------------------
(* C7 *)

\* at the loop no request of the last change is pending; in a handler the
\* requests sent are those of the change in hand, and the changes before it
\* are the ones handled
C7_OneChangeAtATime ==
    /\ pc = "apply" => (scan = <<>> /\ todo = <<>>)
    /\ pc \in {"delete", "create"} =>
        /\ idx \in 1..Len(plan.changes)
        /\ applied.result = "running"
        /\ \A i \in 1..Len(CreatedParams) :
              /\ Change.kind \in {"create", "update"}
              /\ CreatedParams[i].source = Change.new.name
              /\ CreatedParams[i].type = Change.new.type
              /\ CreatedParams[i].target \in Range(Change.new.values)
        /\ \A i \in 1..Len(DeletedIds) :
              /\ Change.kind \in {"delete", "update"}
              /\ \E k \in 1..Len(CachedRows(plan.desired)) :
                    /\ CachedRows(plan.desired)[k].id = DeletedIds[i]
                    /\ CachedRows(plan.desired)[k].type = Change.existing.type
                    /\ CachedRows(plan.desired)[k].source = SourceOf(Change.existing.name)

\* a step of _apply: the loop moves on by one change and never reorders the
\* list; a request sent by a handler either succeeds and _apply goes on, or
\* fails, and then _apply is left with the exception, nothing is undone and
\* nothing more is written; the remote rows change only by a successful
\* request of the handler in hand
C7_Step ==
    /\ (pc # "idle" /\ pc' # "idle") =>
          /\ idx' \in {idx, idx + 1}
          /\ idx' = idx + 1 => pc = "apply"
          /\ Len(plan'.changes) = Len(plan.changes)
          /\ \A i \in 1..Len(plan.changes) :
                /\ plan'.changes[i].kind = plan.changes[i].kind
                /\ plan'.changes[i].new = plan.changes[i].new
    /\ (pc \in {"delete", "create"} /\ pc' # "idle") =>
          /\ Len(calls') = Len(calls) + 1
          /\ calls'[Len(calls')].status = 200
    /\ (pc # "idle" /\ pc' = "idle" /\ applied'.result # "ok") =>
          /\ applied'.result \in Exceptions
          /\ prov' = prov /\ nextId' = nextId
    /\ prov' # prov =>
          (pc \in {"delete", "create"} /\ pc' # "idle" /\ applied'.result = "running")

\* C7: _apply handles the changes in the given order, one at a time; when a
\* handler fails _apply fails, no later change is written, and what succeeded
\* before stays at the remote API
C7_OrderedNoRollback == [](C7_OneChangeAtATime) /\ [][C7_Step]_vars

\* _apply failed in its second change after the first one created a row
C7_Witness ==
    /\ pc = "idle" /\ last = "apply" /\ applied.result \in Exceptions
    /\ nextId > FirstId
    /\ \E i \in 1..Len(RemoteRows(applied.zone)) : RemoteRows(applied.zone)[i].id >= FirstId

----------------------------------------------------------------------------
(* C8 *)

\* C8: a Delete(existing) handler sends deleteRecord for the id of every row of
\* the zone's record list, as the cache gave it, whose source_name and type are
\* existing's, once each and in list order, and for no other row
C8_DeleteMatchingRows ==
    (InHandler /\ Change.kind = "delete") =>
        LET want == CachedIds(SourceOf(Change.existing.name), Change.existing.type)
        IN /\ IsPrefix(DeletedIds, want)
           /\ NoDuplicates(DeletedIds)
           /\ HandlerDone => DeletedIds = want
           /\ CreatedParams = <<>>

\* a Delete that removed two rows of a list holding rows of another name and
\* of another type
C8_Witness ==
    /\ HandlerDone /\ Change.kind = "delete"
    /\ Len(DeletedIds) = 2
    /\ Len(CachedRows(plan.desired)) > 3

----------------------------------------------------------------------------
(* C9 *)

\* C9: a row with source_name "." of a supported type is populated as a record
\* of name "", no record has the name "."; and a Delete of a record named ""
\* deletes exactly the rows with source_name "." of its type
C9_ApexNormalization ==
    /\ Populated =>
          /\ \A i \in 1..Len(CachedRows(pop.zone)) :
                LET row == CachedRows(pop.zone)[i]
                IN (row.source = "." /\ row.type \in {"A", "AAAA", "CNAME"}) =>
                        RecordsOf("", row.type) # {}
          /\ \A i \in 1..Len(pop.records) : pop.records[i].name # "."
    /\ (HandlerDone /\ Change.kind = "delete" /\ Change.existing.name \in {"", "."}) =>
          DeletedIds = CachedIds(".", Change.existing.type)

\* populate handed over a record named "" for a row whose source_name is "."
C9_Witness ==
    /\ Populated
    /\ \E i \in 1..Len(CachedRows(pop.zone)) : CachedRows(pop.zone)[i].source = "."
    /\ RecordsOf("", "A") # {}

----------------------------------------------------------------------------
(* C10 *)

\* C10: a row whose type is not A, AAAA or CNAME gives no record and does not
\* make populate raise, and the supported rows of the same list are populated
C10_UnsupportedSkipped ==
    Populated =>
        LET rows == CachedRows(pop.zone)
            Ok(t) == t \in {"A", "AAAA", "CNAME"}
        IN /\ \A i \in 1..Len(pop.records) :
                /\ Ok(pop.records[i].type)
                /\ \E k \in 1..Len(rows) :
                      /\ Ok(rows[k].type)
                      /\ rows[k].type = pop.records[i].type
                      /\ rows[k].source \in {pop.records[i].name, SourceOf(pop.records[i].name)}
                      /\ rows[k].target \in Range(pop.records[i].values)
           /\ \A k \in 1..Len(rows) :
                Ok(rows[k].type) =>
                    \E i \in 1..Len(pop.records) :
                        /\ pop.records[i].type = rows[k].type
                        /\ rows[k].source \in {pop.records[i].name,
                                               SourceOf(pop.records[i].name)}
           /\ pop.result # "ok" => (pop.result # "AttributeError" /\ ~AllOk(pop.calls))

\* populate read a list with an MX row and handed over the records of the
\* other rows
C10_Witness ==
    /\ Populated /\ pop.result = "ok"
    /\ \E k \in 1..Len(CachedRows(pop.zone)) : CachedRows(pop.zone)[k].type = "MX"
    /\ Len(pop.records) = 2

----------------------------------------------------------------------------
(* C11 *)

\* the parameter sets a Create of a record has to send: one per value, in the
\* order of the values, for A and AAAA, one for CNAME
CreateParamsOf(new) ==
    IF new.type = "CNAME"
    THEN << [target |-> new.values[1], source |-> new.name, ttl |-> new.ttl,
             type |-> new.type] >>
    ELSE [i \in 1..Len(new.values) |->
            [target |-> new.values[i], source |-> new.name, ttl |-> new.ttl,
             type |-> new.type]]

\* in a Create handler the createRecord requests sent are the first ones of
\* the record's parameter sets, all of them once the handler has returned, and
\* the rows of the requests sent are at the remote API
C11_CreateSent ==
    (InHandler /\ Change.kind = "create") =>
        /\ IsPrefix(CreatedParams, CreateParamsOf(Change.new))
        /\ HandlerDone => CreatedParams = CreateParamsOf(Change.new)
        /\ DeletedIds = <<>>
        /\ Len(calls) = Len(CreatedParams)
        /\ \A i \in 1..Len(CreatedParams) :
              \E k \in 1..Len(RemoteRows(plan.desired)) :
                 LET row == RemoteRows(plan.desired)[k]
                 IN /\ row.id >= FirstId
                    /\ row.target = CreatedParams[i].target
                    /\ row.type = CreatedParams[i].type
                    /\ row.ttl = CreatedParams[i].ttl
                    /\ PopulateName(row.source) = CreatedParams[i].source

\* a createRecord request of a Create handler that fails: _apply is left with
\* the exception, the remote rows stay as they are, nothing more is sent
C11_CreateFails ==
    ( /\ pc = "create" /\ Change.kind = "create"
      /\ \/ pc' = "idle"
         \/ Len(calls') > Len(calls) /\ calls'[Len(calls')].status # 200 ) =>
        /\ pc' = "idle"
        /\ applied'.result \in Exceptions
        /\ prov' = prov
        /\ nextId' = nextId

\* C11: Create(new) sends one createRecord per value of new, in the order of
\* the values, for A and AAAA, and exactly one for CNAME, each with target the
\* value, source new's name, ttl new's ttl and type new's type; when the k-th
\* request fails the k-1 rows created stay, no further createRecord is sent and
\* the failure propagates
C11_CreatePerValue == [](C11_CreateSent) /\ [][C11_CreateFails]_vars

\* a Create of a record with two values that sent both requests
C11_Witness ==
    /\ HandlerDone /\ Change.kind = "create"
    /\ Len(Change.new.values) = 2
    /\ Len(CreatedParams) = 2

----------------------------------------------------------------------------
(* C12 *)

\* the step is a call of populate
PopulateStep == nPopulate' = nPopulate + 1

\* the step is a call of populate for the zone of the populate before it, no
\* _apply in between
PopulateAgain == PopulateStep /\ last = "populate" /\ pop'.zone = pop.zone

\* the record lookup of a populate found an entry or fetched the list
LookupOk(p) == p.hadEntry \/ (p.calls # <<>> /\ p.calls[1].status = 200)

----------------------------------------------------------------------------
(* C13 *)

\* C13: between two invalidations of a zone's entry the lookups for the zone
\* send at most one fetchRecords request, so a populate sends at most one, and
\* a populate of a zone that has a cache entry sends no request at all
C13_OneFetchPerCacheEpoch ==
    Populated =>
        /\ Cardinality(Fetches) <= 1
        /\ pop.hadEntry => pop.calls = <<>>

----------------------------------------------------------------------------
(* C14 *)

\* C14: no failure of a request of a handler is swallowed: while _apply goes
\* on, every request its handler in hand has sent succeeded, the fetchRecords
\* of a Delete's lookup included, and a Delete whose fetch failed does not
\* return having sent no deleteRecord
C14_WriteFailuresPropagate ==
    InHandler =>
        /\ AllOk(calls)
        /\ (HandlerDone /\ Change.kind = "delete" /\ DeletedIds = <<>>) =>
              \A i \in 1..Len(calls) : calls[i].op = "records" => calls[i].status = 200

----------------------------------------------------------------------------
(* C15 *)

\* the delete part of the handler in hand is over: a Delete has returned, an
\* Update is about to send its first createRecord or had none to send
DeleteDone ==
    \/ HandlerDone /\ Change.kind = "delete"
    \/ /\ InHandler /\ Change.kind = "update" /\ pc \in {"create", "apply"}
       /\ CreatedParams = <<>>
       /\ pc = "apply" => Change.new.values = <<>>

\* C15: when the delete part of a Delete or of an Update is over and every
\* request it sent succeeded, the remote zone holds no row of existing's name
\* and type
C15_DeletedRowsGone ==
    (DeleteDone /\ AllOk(calls)) =>
        \A i \in 1..Len(RemoteRows(plan.desired)) :
            LET row == RemoteRows(plan.desired)[i]
            IN ~ ( /\ PopulateName(row.source) = PopulateName(Change.existing.name)
                   /\ row.type = Change.existing.type )

----------------------------------------------------------------------------
(* C16 *)

\* C16: _apply does not write to its change list: no step of _apply changes a
\* change or a record it carries
C16_ChangesReadOnly ==
    [][ (pc # "idle" /\ pc' # "idle") => plan'.changes = plan.changes ]_vars

----------------------------------------------------------------------------
(* C17 *)

\* C17: every createRecord request sent for a record of name "", by a Create or
\* by the create part of an Update, has source "."; no createRecord request
\* has the empty string as source
C17_ApexCreatedAsDot ==
    InHandler =>
        \A i \in 1..Len(CreatedParams) :
            /\ CreatedParams[i].source # ""
            /\ Change.new.name = "" => CreatedParams[i].source = "."

----------------------------------------------------------------------------
(* C18 *)

\* the rows of a list that come before row k and belong to its group
EarlierInGroup(rows, k) ==
    { j \in 1..(k - 1) : rows[j].source = rows[k].source /\ rows[j].type = rows[k].type }

\* C18: for the list populate read, the zone gets exactly one record for every
\* source_name and type of a supported row, no two records have the same name
\* and type, every row of a group is in its record, and the record's TTL is
\* the TTL of the first row of the group
C18_OneRecordPerGroup ==
    (Populated /\ pop.result = "ok") =>
        LET rows == CachedRows(pop.zone)
        IN /\ \A k \in 1..Len(rows) :
                rows[k].type \in {"A", "AAAA", "CNAME"} =>
                    LET got == RecordsOf(PopulateName(rows[k].source), rows[k].type)
                    IN /\ Cardinality(got) = 1
                       /\ \A i \in got :
                            /\ rows[k].target \in Range(pop.records[i].values)
                            /\ EarlierInGroup(rows, k) = {} =>
                                  pop.records[i].ttl = rows[k].ttl
           /\ \A i \in 1..Len(pop.records) :
                \E k \in 1..Len(rows) :
                    /\ rows[k].type = pop.records[i].type
                    /\ PopulateName(rows[k].source) = pop.records[i].name
           /\ \A i, j \in 1..Len(pop.records) :
                ( /\ pop.records[i].name = pop.records[j].name
                  /\ pop.records[i].type = pop.records[j].type ) => i = j

----------------------------------------------------------------------------
(* C19 *)

\* the step's lookup for a zone sent a fetchRecords request that succeeded
Fetched(zone) ==
    \/ /\ PopulateStep /\ pop'.zone = zone /\ ~pop'.hadEntry
       /\ pop'.calls # <<>> /\ pop'.calls[1].status = 200
    \/ /\ pc = "apply" /\ pc' \in {"delete", "create", "apply"} /\ idx' = idx + 1
       /\ plan.desired = zone
       /\ calls' # <<>> /\ calls'[1].op = "records" /\ calls'[1].status = 200

\* the step's lookup for a zone sent a fetchRecords request that failed
FetchFailed(zone) ==
    \/ /\ PopulateStep /\ pop'.zone = zone /\ ~pop'.hadEntry
       /\ pop'.calls # <<>> /\ pop'.calls[1].status # 200
    \/ /\ pc = "apply" /\ pc' # "idle" /\ idx' = idx + 1
       /\ plan.desired = zone
       /\ calls' # <<>> /\ calls'[1].op = "records" /\ calls'[1].status # 200

\* what a step may do to the entry of a zone
C19_EntryStep(zone) ==
    LET had == zone \in DOMAIN _zone_records
        has == zone \in DOMAIN _zone_records'
    IN /\ (~had /\ has) =>
            /\ Fetched(zone)
            /\ _zone_records'[zone] = RemoteRows(zone)
            /\ prov' = prov
       /\ (had /\ has) => _zone_records'[zone] = _zone_records[zone]
       /\ (had /\ ~has) =>
            /\ pc = "apply" /\ pc' = "idle" /\ applied'.result = "ok"
            /\ applied'.zone = zone
       /\ FetchFailed(zone) => ~has
       /\ (pc = "apply" /\ pc' = "idle" /\ applied'.result = "ok"
             /\ applied'.zone = zone) => ~has

\* C19: a zone's cache entry is absent or the complete response of one
\* successful fetchRecords request for the zone: an entry appears only by a
\* successful fetch, a failed fetch leaves no entry, no step edits an entry,
\* and an entry goes only when _apply returns, which removes the entry of its
\* zone and of no other
C19_CacheEntries == [][ \A zone \in Zones : C19_EntryStep(zone) ]_vars

\* _apply has returned for a zone while another zone has its entry
C19_Witness ==
    /\ pc = "idle" /\ last = "apply" /\ applied.result = "ok"
    /\ applied.zone \notin DOMAIN _zone_records
    /\ \E zone \in Zones : zone # applied.zone /\ CachedRows(zone) # <<>>

====
